---- MODULE Spec2Model ----
(***************************************************************************)
(* A model of obsidian-utils: generate_arxiv_md.py, generate_openreview_md.py *)
(* and generate_md.py.  Strings are sequences of one-character strings, so  *)
(* that the string operations of the source (split, join, find, replace,    *)
(* lower, regular-expression matching) are computed and not assumed.        *)
(***************************************************************************)
EXTENDS Integers, Sequences, FiniteSets, TLC

VARIABLES
  fn, arg, ret,          \* a single call of a pure function: its name, its input, its result
  source,                \* which script runs: "arxiv" or "openreview"
  entries,               \* run's argument: the list of URLs
  pc,                    \* position of the control flow of run
  paper_ids,             \* run: the identifiers taken from the URLs
  ids,                   \* arxiv2bib_dict: the identifiers that passed is_valid
  results,               \* the batch function's mapping, identifier -> record
  xml,                   \* arxiv2bib_dict: the entries of the API response
  notes,                 \* openreview2bib_dict: the notes of the last API response
  k,                     \* index of the loop the control flow is in
  files,                 \* the working directory: file name -> content
  exc,                   \* the exception that left run, or NoExc
  stdout,                \* what run has printed
  log                    \* history: the steps taken, <<step, index in paper_ids>>

vars == <<fn, arg, ret, source, entries, pc, paper_ids, ids, results, xml, notes,
          k,
          files, exc, stdout, log>>

callVars == <<fn, arg, ret>>
runVars == <<source, entries, pc, paper_ids, ids, results, xml, notes, k, files, exc,
             stdout, log>>

----------------------------------------------------------------------------
(* Bounds of the model.                                                     *)

\* longest run of padding characters put before and after an identifier
MaxPad == 2
\* longest title or summary drawn character by character
MaxLen == 3
\* longest list of URLs given to run
MaxPapers == 2

----------------------------------------------------------------------------
(* Characters and Python's string operations.                               *)

UpperSeq ==
  <<"A","B","C","D","E","F","G","H","I","J","K","L","M",
    "N","O","P","Q","R","S","T","U","V","W","X","Y","Z">>
LowerSeq ==
  <<"a","b","c","d","e","f","g","h","i","j","k","l","m",
    "n","o","p","q","r","s","t","u","v","w","x","y","z">>
DigitSeq == <<"0","1","2","3","4","5","6","7","8","9">>

Range(f) == {f[i] : i \in DOMAIN f}

\* str.isspace for the characters of the model
Whitespace == {" ", "\n", "\t"}
\* the class \d
Digit == Range(DigitSeq)
\* the class \w
Word == Range(UpperSeq) \cup Range(LowerSeq) \cup Digit \cup {"_"}

\* all strings over alphabet A of length at most n
Strs(A, n) == UNION {[1..m -> A] : m \in 0..n}

\* str.lower, character by character
LowerChar(c) ==
  IF \E i \in DOMAIN UpperSeq : UpperSeq[i] = c
  THEN LowerSeq[CHOOSE i \in DOMAIN UpperSeq : UpperSeq[i] = c]
  ELSE c
lower(s) == [i \in 1..Len(s) |-> LowerChar(s[i])]

\* s[a:] and s[:b] of Python for a, b >= 0
SliceFrom(s, a) == SubSeq(s, a + 1, Len(s))
SliceTo(s, b) == SubSeq(s, 1, IF b < Len(s) THEN b ELSE Len(s))

\* str.find: the lowest 0-based offset at which sub occurs in s, or -1
find(s, sub) ==
  LET hits == {i \in 0..(Len(s) - Len(sub)) : SubSeq(s, i + 1, i + Len(sub)) = sub}
  IN  IF hits = {} THEN -1 ELSE CHOOSE i \in hits : \A j \in hits : i <= j

\* str.rfind: the highest such offset, or -1
rfind(s, sub) ==
  LET hits == {i \in 0..(Len(s) - Len(sub)) : SubSeq(s, i + 1, i + Len(sub)) = sub}
  IN  IF hits = {} THEN -1 ELSE CHOOSE i \in hits : \A j \in hits : i >= j

\* s.replace(c, "") for a one-character c
RECURSIVE remove(_, _)
remove(s, c) ==
  IF s = <<>> THEN <<>>
  ELSE IF Head(s) = c THEN remove(Tail(s), c)
  ELSE <<Head(s)>> \o remove(Tail(s), c)

\* s.strip()
RECURSIVE lstrip(_)
lstrip(s) ==
  IF s # <<>> /\ Head(s) \in Whitespace THEN lstrip(Tail(s)) ELSE s
RECURSIVE rstrip(_)
rstrip(s) ==
  IF s # <<>> /\ s[Len(s)] \in Whitespace THEN rstrip(SubSeq(s, 1, Len(s) - 1)) ELSE s
strip(s) == rstrip(lstrip(s))

\* s.split(): the maximal runs of non-whitespace characters, in order
RECURSIVE SplitFrom(_, _, _)
SplitFrom(s, words, cur) ==
  IF s = <<>> THEN (IF cur = <<>> THEN words ELSE Append(words, cur))
  ELSE IF Head(s) \in Whitespace
       THEN SplitFrom(Tail(s), IF cur = <<>> THEN words ELSE Append(words, cur), <<>>)
       ELSE SplitFrom(Tail(s), words, Append(cur, Head(s)))
split(s) == SplitFrom(s, <<>>, <<>>)

\* sep.join(words)
RECURSIVE join(_, _)
join(sep, words) ==
  IF words = <<>> THEN <<>>
  ELSE IF Len(words) = 1 THEN words[1]
  ELSE words[1] \o sep \o join(sep, Tail(words))

\* s.split(sep)[-1]: what follows the last occurrence of sep
SplitLast(s, sep) ==
  IF rfind(s, sep) = -1 THEN s ELSE SliceFrom(s, rfind(s, sep) + Len(sep))

\* s.split(sep)[0]: what precedes the first occurrence of sep
SplitFirst(s, sep) ==
  IF find(s, sep) = -1 THEN s ELSE SliceTo(s, find(s, sep))

----------------------------------------------------------------------------
(* Regular expressions, as the re module matches them.  A pattern is a tree;*)
(* Ends(r, s, p) is the set of offsets at which a match of r that starts at *)
(* offset p of s can end.  pattern.match(s) tries offset 0 only.            *)

ReSet(cs) == [t |-> "set", cs |-> cs]
ReLit(s) == [t |-> "lit", s |-> s]
ReSeq(rs) == [t |-> "seq", rs |-> rs]
ReAlt(rs) == [t |-> "alt", rs |-> rs]
\* r{lo,hi}; hi = -1 is no upper limit
ReRep(r, lo, hi) == [t |-> "rep", r |-> r, lo |-> lo, hi |-> hi]
ReOpt(r) == ReRep(r, 0, 1)
\* ^ without re.MULTILINE
ReBol == [t |-> "bol"]
\* $ without re.MULTILINE: the end of the string, or just before a newline that
\* is the last character of the string
ReEol == [t |-> "eol"]

RECURSIVE Ends(_, _, _)
RECURSIVE EndsSeq(_, _, _, _)
RECURSIVE EndsRep(_, _, _, _)

Ends(r, s, p) ==
  CASE r.t = "set" -> IF p < Len(s) /\ s[p + 1] \in r.cs THEN {p + 1} ELSE {}
    [] r.t = "lit" -> IF p + Len(r.s) <= Len(s) /\ SubSeq(s, p + 1, p + Len(r.s)) = r.s
                      THEN {p + Len(r.s)} ELSE {}
    [] r.t = "seq" -> EndsSeq(r.rs, 1, s, {p})
    [] r.t = "alt" -> UNION {Ends(r.rs[i], s, p) : i \in DOMAIN r.rs}
    [] r.t = "rep" -> EndsRep(r, s, {p}, 0)
    [] r.t = "bol" -> IF p = 0 THEN {p} ELSE {}
    [] r.t = "eol" -> IF p = Len(s) \/ (p = Len(s) - 1 /\ s[p + 1] = "\n")
                      THEN {p} ELSE {}

EndsSeq(rs, i, s, P) ==
  IF i > Len(rs) \/ P = {} THEN P
  ELSE EndsSeq(rs, i + 1, s, UNION {Ends(rs[i], s, p) : p \in P})

EndsRep(r, s, P, n) ==
  (IF n >= r.lo THEN P ELSE {})
  \cup (IF P = {} \/ (r.hi # -1 /\ n >= r.hi) THEN {}
        ELSE EndsRep(r, s, UNION {Ends(r.r, s, p) : p \in P}, n + 1))

\* bool(pattern.match(s))
re_match(pattern, s) == Ends(pattern, s, 0) # {}

----------------------------------------------------------------------------
(* Identifier validation.                                                   *)

\* (v\d+)?
ReVersion == ReOpt(ReSeq(<<ReLit(<<"v">>), ReRep(ReSet(Digit), 1, -1)>>))

NEW_STYLE ==
  ReSeq(<<ReBol, ReRep(ReSet(Digit), 4, 4), ReLit(<<".">>),
          ReRep(ReSet(Digit), 4, -1), ReVersion, ReEol>>)

\* the subject areas of OLD_STYLE, each with its list of sub-categories
OLD_STYLE_AREAS ==
  <<
    [area |-> <<"m","a","t","h","-","p","h">>,
     subs |-> <<>>],
    [area |-> <<"h","e","p","-","p","h">>,
     subs |-> <<>>],
    [area |-> <<"n","u","c","l","-","e","x">>,
     subs |-> <<>>],
    [area |-> <<"n","u","c","l","-","t","h">>,
     subs |-> <<>>],
    [area |-> <<"g","r","-","q","c">>,
     subs |-> <<>>],
    [area |-> <<"a","s","t","r","o","-","p","h">>,
     subs |-> <<>>],
    [area |-> <<"h","e","p","-","l","a","t">>,
     subs |-> <<>>],
    [area |-> <<"q","u","a","n","t","-","p","h">>,
     subs |-> <<>>],
    [area |-> <<"h","e","p","-","e","x">>,
     subs |-> <<>>],
    [area |-> <<"h","e","p","-","t","h">>,
     subs |-> <<>>],
    [area |-> <<"s","t","a","t">>,
     subs |-> <<<<"A","P">>, <<"C","O">>, <<"M","L">>, <<"M","E">>, <<"T","H">>>>],
    [area |-> <<"q","-","b","i","o">>,
     subs |-> <<<<"B","M">>, <<"C","B">>, <<"G","N">>, <<"M","N">>, <<"N","C">>,
                  <<"O","T">>, <<"P","E">>, <<"Q","M">>, <<"S","C">>, <<"T","O">>>>],
    [area |-> <<"c","o","n","d","-","m","a","t">>,
     subs |-> <<<<"d","i","s","-","n","n">>, <<"m","e","s","-","h","a","l","l">>,
                  <<"m","t","r","l","-","s","c","i">>, <<"o","t","h","e","r">>,
                  <<"s","o","f","t">>, <<"s","t","a","t","-","m","e","c","h">>,
                  <<"s","t","r","-","e","l">>, <<"s","u","p","r","-","c","o","n">>>>],
    [area |-> <<"c","s">>,
     subs |-> <<<<"A","R">>, <<"A","I">>, <<"C","L">>, <<"C","C">>, <<"C","E">>,
                  <<"C","G">>, <<"G","T">>, <<"C","V">>, <<"C","Y">>, <<"C","R">>,
                  <<"D","S">>, <<"D","B">>, <<"D","L">>, <<"D","M">>, <<"D","C">>,
                  <<"G","L">>, <<"G","R">>, <<"H","C">>, <<"I","R">>, <<"I","T">>,
                  <<"L","G">>, <<"L","O">>, <<"M","S">>, <<"M","A">>, <<"M","M">>,
                  <<"N","I">>, <<"N","E">>, <<"N","A">>, <<"O","S">>, <<"O","H">>,
                  <<"P","F">>, <<"P","L">>, <<"R","O">>, <<"S","E">>, <<"S","D">>,
                  <<"S","C">>>>],
    [area |-> <<"n","l","i","n">>,
     subs |-> <<<<"A","O">>, <<"C","G">>, <<"C","D">>, <<"S","I">>, <<"P","S">>>>],
    [area |-> <<"p","h","y","s","i","c","s">>,
     subs |-> <<<<"a","c","c","-","p","h">>, <<"a","o","-","p","h">>,
                  <<"a","t","o","m","-","p","h">>, <<"a","t","m","-","c","l","u","s">>,
                  <<"b","i","o","-","p","h">>, <<"c","h","e","m","-","p","h">>,
                  <<"c","l","a","s","s","-","p","h">>, <<"c","o","m","p","-","p","h">>,
                  <<"d","a","t","a","-","a","n">>, <<"f","l","u","-","d","y","n">>,
                  <<"g","e","n","-","p","h">>, <<"g","e","o","-","p","h">>,
                  <<"h","i","s","t","-","p","h">>, <<"i","n","s","-","d","e","t">>,
                  <<"m","e","d","-","p","h">>, <<"o","p","t","i","c","s">>,
                  <<"e","d","-","p","h">>, <<"s","o","c","-","p","h">>,
                  <<"p","l","a","s","m","-","p","h">>, <<"p","o","p","-","p","h">>,
                  <<"s","p","a","c","e","-","p","h">>>>],
    [area |-> <<"m","a","t","h">>,
     subs |-> <<<<"A","G">>, <<"A","T">>, <<"A","P">>, <<"C","T">>, <<"C","A">>,
                  <<"C","O">>, <<"A","C">>, <<"C","V">>, <<"D","G">>, <<"D","S">>,
                  <<"F","A">>, <<"G","M">>, <<"G","N">>, <<"G","T">>, <<"G","R">>,
                  <<"H","O">>, <<"I","T">>, <<"K","T">>, <<"L","O">>, <<"M","P">>,
                  <<"M","G">>, <<"N","T">>, <<"N","A">>, <<"O","A">>, <<"O","C">>,
                  <<"P","R">>, <<"Q","A">>, <<"R","T">>, <<"R","A">>, <<"S","P">>,
                  <<"S","T">>, <<"S","G">>>>]
  >>

\* one alternative of OLD_STYLE: area, or area(\.(sub|sub|...))?
ReArea(a) ==
  IF a.subs = <<>> THEN ReLit(a.area)
  ELSE ReSeq(<<ReLit(a.area),
               ReOpt(ReSeq(<<ReLit(<<".">>),
                             ReAlt([i \in DOMAIN a.subs |-> ReLit(a.subs[i])])>>))>>)

OLD_STYLE ==
  ReSeq(<<ReBol,
          ReAlt([i \in DOMAIN OLD_STYLE_AREAS |-> ReArea(OLD_STYLE_AREAS[i])]),
          ReLit(<<"/">>), ReRep(ReSet(Digit), 7, 7), ReVersion, ReEol>>)

OPENREVIEW_ID == ReSeq(<<ReBol, ReRep(ReSet(Word \cup {"-"}), 1, -1), ReEol>>)

arxiv_is_valid(arxiv_id) == re_match(NEW_STYLE, arxiv_id) \/ re_match(OLD_STYLE, arxiv_id)

openreview_is_valid(openreview_id) == re_match(OPENREVIEW_ID, openreview_id)

is_valid(src, id) ==
  IF src = "arxiv" THEN arxiv_is_valid(id) ELSE openreview_is_valid(id)

----------------------------------------------------------------------------
(* Results of a call: a value, or an exception with its str().              *)

Ok(v) == [st |-> "ok", val |-> v]
Raise(m) == [st |-> "raise", msg |-> m]

\* str() of the exceptions the code can meet
NoSuchPublication == "No such publication"
IndexErrorMsg == "list index out of range"
KeyErrorMsg(key) == "'" \o key \o "'"
ValueErrorMsg == "time data does not match format"
HTTPErrorMsg == "HTTP Error"

----------------------------------------------------------------------------
(* Dates.                                                                   *)

\* decimal digits of a natural number
RECURSIVE IntToStr(_)
IntToStr(n) ==
  IF n < 10 THEN <<DigitSeq[n + 1]>>
  ELSE IntToStr(n \div 10) \o <<DigitSeq[(n % 10) + 1]>>

\* int() of a string of digits, leading spaces skipped
RECURSIVE StrToInt(_)
StrToInt(s) ==
  IF s = <<>> THEN 0
  ELSE IF s[Len(s)] = " " THEN 0
  ELSE 10 * StrToInt(SubSeq(s, 1, Len(s) - 1))
       + (CHOOSE d \in 0..9 : DigitSeq[d + 1] = s[Len(s)])

\* %m and %d of strftime
Pad2(n) == IF n < 10 THEN <<"0">> \o IntToStr(n) ELSE IntToStr(n)

IsLeap(y) == (y % 4 = 0 /\ y % 100 # 0) \/ y % 400 = 0
DaysInYear(y) == IF IsLeap(y) THEN 366 ELSE 365
DaysInMonth(y, m) ==
  IF m = 2 THEN (IF IsLeap(y) THEN 29 ELSE 28)
  ELSE IF m \in {4, 6, 9, 11} THEN 30 ELSE 31

\* the civil date (UTC) of a day number counted from the first day of year y
RECURSIVE MonthDay(_, _, _)
MonthDay(y, m, d) ==
  IF d < DaysInMonth(y, m) THEN [year |-> y, month |-> m, day |-> d + 1]
  ELSE MonthDay(y, m + 1, d - DaysInMonth(y, m))
RECURSIVE CivilFromDays(_, _)
CivilFromDays(y, d) ==
  IF d < DaysInYear(y) THEN MonthDay(y, 1, d)
  ELSE CivilFromDays(y + 1, d - DaysInYear(y))

\* A 'pdate' of the OpenReview API is epoch milliseconds; the model holds it as
\* whole seconds and the remaining milliseconds.  pub_date / 1000 is secs.
\* bool(pub_date)
truthy(pub_date) == pub_date.present /\ (pub_date.secs # 0 \/ pub_date.ms # 0)
\* datetime.fromtimestamp(pub_date / 1000), read in UTC
fromtimestamp(pub_date) == CivilFromDays(1970, pub_date.secs \div 86400)

\* the pattern datetime.strptime compiles for "%Y-%m-%dT%H:%M:%SZ" (it ignores case)
D1(a, b) == ReSet({DigitSeq[i + 1] : i \in a..b})
StrptimeRe ==
  ReSeq(<<
    ReRep(ReSet(Digit), 4, 4), ReLit(<<"-">>),
    ReAlt(<<ReSeq(<<D1(1, 1), D1(0, 2)>>), ReSeq(<<D1(0, 0), D1(1, 9)>>), D1(1, 9)>>),
    ReLit(<<"-">>),
    ReAlt(<<ReSeq(<<D1(3, 3), D1(0, 1)>>), ReSeq(<<D1(1, 2), D1(0, 9)>>),
            ReSeq(<<D1(0, 0), D1(1, 9)>>), D1(1, 9), ReSeq(<<ReLit(<<" ">>), D1(1, 9)>>)>>),
    ReSet({"T", "t"}),
    ReAlt(<<ReSeq(<<D1(2, 2), D1(0, 3)>>), ReSeq(<<D1(0, 1), D1(0, 9)>>), D1(0, 9)>>),
    ReLit(<<":">>),
    ReAlt(<<ReSeq(<<D1(0, 5), D1(0, 9)>>), D1(0, 9)>>),
    ReLit(<<":">>),
    ReAlt(<<ReSeq(<<D1(6, 6), D1(0, 1)>>), ReSeq(<<D1(0, 5), D1(0, 9)>>), D1(0, 9)>>),
    ReSet({"Z", "z"})>>)

\* datetime.strptime(s, "%Y-%m-%dT%H:%M:%SZ").strftime("%Y-%m-%d")
strptime_strftime(s) ==
  IF Len(s) \notin Ends(StrptimeRe, s, 0) THEN Raise(ValueErrorMsg)
  ELSE
    LET rest1 == SliceFrom(s, 5)
        mon   == SplitFirst(rest1, <<"-">>)
        rest2 == SliceFrom(rest1, Len(mon) + 1)
        dayT  == IF find(rest2, <<"T">>) # -1 THEN SplitFirst(rest2, <<"T">>)
                 ELSE SplitFirst(rest2, <<"t">>)
        sec   == SliceTo(SplitLast(s, <<":">>), Len(SplitLast(s, <<":">>)) - 1)
        y     == StrToInt(SliceTo(s, 4))
        m     == StrToInt(mon)
        d     == StrToInt(dayT)
    IN  IF y = 0 \/ d > DaysInMonth(y, m) \/ StrToInt(sec) > 59
        THEN Raise(ValueErrorMsg)
        ELSE Ok(IntToStr(y) \o <<"-">> \o Pad2(m) \o <<"-">> \o Pad2(d))

----------------------------------------------------------------------------
(* generate_arxiv_md.Reference                                              *)

\* An element of the Atom entry: absent, or present with its text.
Elem(text) == [present |-> TRUE, text |-> text]
NoElem == [present |-> FALSE, text |-> <<>>]

AbsMarker == <<"/","a","b","s","/">>

\* Reference._field_text: the stripped text, "" when the element is missing
_field_text(entry_xml, name) ==
  IF entry_xml[name].present THEN strip(entry_xml[name].text) ELSE <<>>

\* Reference._id
_id(entry_xml) ==
  LET id_url == _field_text(entry_xml, "id")
  IN  SliceFrom(id_url, find(id_url, AbsMarker) + 5)

\* Reference._category
_category(entry_xml) ==
  IF entry_xml.primary_category.present THEN entry_xml.primary_category.text ELSE <<>>

\* Reference._published: <<year, month>>
_published(entry_xml) ==
  LET published == _field_text(entry_xml, "published")
  IN  IF Len(published) < 7 THEN <<(<<>>), (<<>>)>>
      ELSE <<SliceTo(published, 4), SubSeq(published, 6, 7)>>

\* s[:b] where b may be negative, as in self.id[:self.id.rfind('v')]
PySliceTo(s, b) ==
  IF b >= 0 THEN SliceTo(s, b)
  ELSE SubSeq(s, 1, Len(s) + b)

\* the attributes Reference.__init__ of generate_arxiv_md sets
arxiv_attributes(entry_xml) ==
  [url      |-> _field_text(entry_xml, "id"),
   id       |-> _id(entry_xml),
   authors  |-> entry_xml.authors,
   title    |-> _field_text(entry_xml, "title"),
   summary  |-> _field_text(entry_xml, "summary"),
   category |-> _category(entry_xml),
   year     |-> _published(entry_xml)[1],
   month    |-> _published(entry_xml)[2],
   pub_date |-> _field_text(entry_xml, "published"),
   updated  |-> _field_text(entry_xml, "updated"),
   bare_id  |-> PySliceTo(_id(entry_xml), rfind(_id(entry_xml), <<"v">>)),
   note     |-> _field_text(entry_xml, "journal_ref"),
   doi      |-> _field_text(entry_xml, "doi")]

\* __init__ without its check of id, authors and title
arxiv_Reference_unchecked(entry_xml) == Ok(arxiv_attributes(entry_xml))

\* Reference.__init__ of generate_arxiv_md
arxiv_Reference(entry_xml) ==
  LET ref == arxiv_attributes(entry_xml)
  IN  IF Len(ref.id) = 0 \/ Len(ref.authors) = 0 \/ Len(ref.title) = 0
      THEN Raise(NoSuchPublication)
      ELSE Ok(ref)

\* [name.split()[-1].lower() for name in authors]: fails on a name without a word
author_last_names(authors) ==
  IF \E i \in DOMAIN authors : split(authors[i]) = <<>>
  THEN Raise(IndexErrorMsg)
  ELSE Ok([i \in DOMAIN authors |->
             lower(split(authors[i])[Len(split(authors[i]))])])

\* Reference.citation_key of generate_arxiv_md
arxiv_citation_key(ref) ==
  LET names       == author_last_names(ref.authors)
      title_words == split(lower(ref.title))
      first_word  == IF title_words # <<>> THEN remove(title_words[1], ":") ELSE <<>>
  IN  IF names.st = "raise" THEN names
      ELSE IF names.val = <<>> THEN Raise(IndexErrorMsg)
      ELSE Ok(names.val[1] \o ref.year \o first_word)

AndSep == <<" ","a","n","d"," ">>
ArXivPrefix == <<"a","r","X","i","v">>

\* Reference.to_dict of generate_arxiv_md
arxiv_to_dict(ref) ==
  LET key == arxiv_citation_key(ref)
  IN  IF key.st = "raise" THEN key
      ELSE Ok([key           |-> key.val,
               author        |-> join(AndSep, ref.authors),
               title         |-> ref.title,
               eprint        |-> ref.id,
               archivePrefix |-> ArXivPrefix,
               primaryClass  |-> ref.category,
               year          |-> ref.year,
               month         |-> ref.month,
               pubdate       |-> ref.pub_date,
               doi           |-> ref.doi,
               url           |-> ref.url,
               note          |-> ref.note,
               summary       |-> ref.summary])

----------------------------------------------------------------------------
(* generate_openreview_md.Reference                                         *)

\* A key of the JSON note: absent, or present with its value.
Val(v) == [present |-> TRUE, v |-> v]
NoVal == [present |-> FALSE, v |-> <<>>]
Pdate(secs, ms) == [present |-> TRUE, secs |-> secs, ms |-> ms]
NoPdate == [present |-> FALSE, secs |-> 0, ms |-> 0]

OpenReviewHost ==
  <<"h","t","t","p","s",":","/","/","o","p","e","n","r","e","v","i","e","w",".","n","e","t">>
ForumPath == <<"/","f","o","r","u","m","?","i","d","=">>

\* the keys __init__ subscripts, in the order it reads them
OpenReviewKeys == <<"id", "title", "authors", "abstract", "pdf", "forum", "venueid">>

\* Reference.__init__ of generate_openreview_md
openreview_Reference(json_data) ==
  LET missing == {i \in DOMAIN OpenReviewKeys : ~json_data[OpenReviewKeys[i]].present}
  IN  IF missing # {}
      THEN Raise(KeyErrorMsg(OpenReviewKeys[CHOOSE i \in missing : \A j \in missing : i <= j]))
      ELSE IF json_data.id.v = <<>> \/ json_data.authors.v = <<>> \/ json_data.title.v = <<>>
      THEN Raise(NoSuchPublication)
      ELSE Ok([id       |-> json_data.id.v,
               title    |-> json_data.title.v,
               authors  |-> json_data.authors.v,
               summary  |-> json_data.abstract.v,
               pdf_url  |-> OpenReviewHost \o json_data.pdf.v,
               url      |-> OpenReviewHost \o ForumPath \o json_data.forum.v,
               pub_date |-> json_data.pdate,
               venueid  |-> json_data.venueid.v])

YYYY == <<"Y","Y","Y","Y">>

\* the year of Reference.citation_key of generate_openreview_md
openreview_year(pub_date) ==
  IF truthy(pub_date) THEN IntToStr(fromtimestamp(pub_date).year) ELSE YYYY

\* Reference.citation_key of generate_openreview_md
openreview_citation_key(ref) ==
  LET names == author_last_names(ref.authors)
      year  == openreview_year(ref.pub_date)
  IN  IF names.st = "raise" THEN names
      ELSE IF ref.title # <<>> /\ split(lower(ref.title)) = <<>> THEN Raise(IndexErrorMsg)
      ELSE IF names.val = <<>> THEN Raise(IndexErrorMsg)
      ELSE Ok(names.val[1] \o year
              \o (IF ref.title # <<>> THEN remove(split(lower(ref.title))[1], ":")
                  ELSE <<>>))

\* Reference.to_dict of generate_openreview_md
openreview_to_dict(ref) ==
  LET key == openreview_citation_key(ref)
      dt  == fromtimestamp(ref.pub_date)
  IN  IF key.st = "raise" THEN key
      ELSE Ok([key     |-> key.val,
               author  |-> join(AndSep, ref.authors),
               title   |-> ref.title,
               eprint  |-> ref.id,
               url     |-> ref.url,
               summary |-> ref.summary,
               pubdate |-> IF truthy(ref.pub_date)
                           THEN IntToStr(dt.year) \o <<"-">> \o Pad2(dt.month)
                                \o <<"-">> \o Pad2(dt.day)
                           ELSE <<>>,
               venue   |-> SplitFirst(ref.venueid, <<"/">>)])

citation_key(src, ref) ==
  IF src = "arxiv" THEN arxiv_citation_key(ref) ELSE openreview_citation_key(ref)

----------------------------------------------------------------------------
(* generate_markdown_file.  The fixed text of the template is held in       *)
(* pieces, each piece one element of the content; a line break is "\n".     *)

\* the text left as it is
collapse_forgotten(s) == s

\* ' '.join(s.split())
collapse(s) == join(<<" ">>, split(s))

\* the quotes put around s, its own quotes kept
quote_if_colon_keeping_quotes(s) ==
  IF \E i \in DOMAIN s : s[i] = ":" THEN <<"\"">> \o s \o <<"\"">> ELSE s

\* f'"{s.replace('"', '')}"' if ':' in s else s
quote_if_colon(s) ==
  IF \E i \in DOMAIN s : s[i] = ":"
  THEN <<"\"">> \o remove(s, "\"") \o <<"\"">>
  ELSE s

\* the f-string of generate_markdown_file
template(venue, title, author, summary, date_published, date_added, url, key) ==
  <<"---", "\n", "title: ">> \o title
  \o <<"\n", "authors: ">> \o author
  \o <<"\n", "tldr: ">> \o summary
  \o <<"\n", "venue: ", venue, "\n", "date_published: ">> \o date_published
  \o <<"\n", "rating: ", "0/5", "\n", "date_added: ">> \o date_added
  \o <<"\n", "url: ">> \o url
  \o <<"\n", "links: ", "\n", "tags:", "\n", "---", "\n",
       "> [!notes] Notes", "\n",
       "> Summary, Quotes, Thoughts, Questions, etc.", "\n", "\n",
       "---", "\n", "# PDF", "\n", "\n", "![[">> \o key \o <<".pdf]]">>

\* generate_markdown_file of generate_arxiv_md; today is now.strftime("%Y-%m-%d (%a)")
arxiv_generate_markdown_file(metadata, today) ==
  LET title   == quote_if_colon(collapse(metadata.title))
      summary == quote_if_colon(collapse(metadata.summary))
      date_published == strptime_strftime(metadata.pubdate)
  IN  IF date_published.st = "raise" THEN date_published
      ELSE Ok(template("arXiv", title, metadata.author, summary,
                       date_published.val, today, metadata.url, metadata.key))

\* generate_markdown_file of generate_openreview_md
openreview_generate_markdown_file(metadata, today) ==
  LET title   == quote_if_colon(collapse(metadata.title))
      summary == quote_if_colon(collapse(metadata.summary))
  IN  Ok(template("OpenReview", title, metadata.author, summary,
                  metadata.pubdate, today, metadata.url, metadata.key))

generate_markdown_file(src, metadata, today) ==
  IF src = "arxiv" THEN arxiv_generate_markdown_file(metadata, today)
  ELSE openreview_generate_markdown_file(metadata, today)

----------------------------------------------------------------------------
(* Inputs.                                                                  *)

Sources == {"arxiv", "openreview"}

JaneQSmith == <<"J","a","n","e"," ","Q","."," ","S","m","i","t","h">>
BobLee == <<"B","o","b"," ","L","e","e">>
BlankName == <<" ">>
Names == {JaneQSmith, BobLee, BlankName}

DeepTitle ==
  <<"D","e","e","p",":"," ","L","e","a","r","n","i","n","g"," ",
    "T","h","i","n","g","s">>
FooBarTitle == <<"F","o","o",":"," ","\"","B","a","r","\"">>

\* the characters titles and summaries are drawn from
TextChars == {"F", ":", " ", "\"", "\n"}
Titles == Strs(TextChars, MaxLen) \cup {DeepTitle, FooBarTitle}
Summaries ==
  {<<>>, <<"F"," ","F">>, <<"F",":"," ","\"","F","\"">>, <<" ","F","\n","\n","F"," ">>}

Year2023 == <<"2","0","2","3">>
IsoDate ==
  <<"2","0","2","3","-","1","0","-","0","2","T","1","7",":","5","9",":","5","9","Z">>
IsoDateShort == <<"2","0","2","3","-","1","-","2","T","1",":","2",":","3","Z">>
IsoDateFeb30 ==
  <<"2","0","2","3","-","0","2","-","3","0","T","0","0",":","0","0",":","0","0","Z">>
PlainDate == <<"2","0","2","3","-","1","1","-","1","4">>
\* 2023-11-14T22:13:20Z in epoch seconds
Secs2023 == 1700000 * 1000
Pdates == {NoPdate, Pdate(0, 0), Pdate(Secs2023, 0)}

\* now.strftime("%Y-%m-%d (%a)") on the day of the run
Today == <<"2026-11-03 (Tue)">>

ArxivAbs ==
  <<"h","t","t","p","s",":","/","/","a","r","x","i","v",".","o","r","g","/","a","b","s","/">>
ArxivPdf ==
  <<"h","t","t","p","s",":","/","/","a","r","x","i","v",".","o","r","g","/","p","d","f","/">>
OpenReviewForum == OpenReviewHost \o ForumPath
OpenReviewPdf == OpenReviewHost \o <<"/","p","d","f","?","i","d","=">>

ArxivId1 == <<"2","3","1","0",".","0","1","2","3","4">>
ArxivId2 == <<"2","4","0","1",".","5","6","7","8","9">>
ArxivBadId == <<"a","b","c","1","2","3">>
OpenReviewId1 == <<"v","a","l","i","d","i","d","1">>
OpenReviewId2 == <<"a","b","-","2">>
OpenReviewBadId ==
  <<"n","o","t"," ","a"," ","v","a","l","i","d"," ","i","d","!","!">>

\* a url with a line break inside
BrokenUrl == ArxivAbs \o <<"2","3","\n","1","0">>

\* identifiers to validate: a body, with padding before and after
PadChars == {"x", "\n"}
Pads == Strs(PadChars, MaxPad)
Versions == {<<>>, <<"v","2">>, <<"v">>, <<"v","1","2">>}
NewStyleBodies ==
  {SliceTo(<<"2","3","1","0","7">>, a) \o <<".">> \o SliceTo(<<"0","1","2","3","4">>, b) \o v :
     a \in 3..5, b \in 3..5, v \in Versions}
AreaSamples ==
  {<<"h","e","p","-","t","h">>, <<"x","x","-","y","y">>, <<"c","s">>,
   <<"c","s",".","A","I">>, <<"c","s",".","Z","Z">>, <<"c","s",".">>,
   <<"h","e","p","-","t","h",".","A","I">>, <<"m","a","t","h",".","S","G">>}
OldStyleBodies ==
  {p \o <<"/">> \o SliceTo(<<"0","6","0","1","0","0","1","9">>, n) \o v :
     p \in AreaSamples, n \in 6..8, v \in Versions}
OtherBodies == {<<>>, ArxivBadId, OpenReviewId1, OpenReviewId2, OpenReviewBadId}
IdCandidates ==
  {pre \o body \o post :
     pre \in Pads, post \in Pads,
     body \in NewStyleBodies \cup OldStyleBodies \cup OtherBodies}

AuthorLists == UNION {[1..n -> Names] : n \in 0..2}

\* the years and publication dates of the references citation_key is applied to
KeyYears(src) == IF src = "arxiv" THEN {Year2023, <<>>} ELSE {<<>>}
KeyPdates(src) == IF src = "arxiv" THEN {NoPdate} ELSE Pdates

\* the pubdate and url of the metadata records generate_markdown_file is applied to
Pubdates(src) ==
  IF src = "arxiv" THEN {IsoDate, IsoDateShort, IsoDateFeb30, <<>>}
  ELSE {PlainDate, <<>>}
NoteUrls == {ArxivAbs \o ArxivId1, BrokenUrl}

----------------------------------------------------------------------------
(* Single calls of the pure functions.                                      *)

NoRet == [st |-> "none"]
NoExc == "none"
EmptyMap == [x \in {} |-> <<>>]

\* the state of run before it is called
RunIdle ==
  /\ source = "none" /\ entries = <<>> /\ pc = "idle" /\ paper_ids = <<>>
  /\ ids = <<>> /\ results = EmptyMap /\ xml = <<>> /\ notes = <<>> /\ k = 0
  /\ files = EmptyMap /\ exc = NoExc /\ stdout = <<>> /\ log = <<>>

InitValid ==
  /\ fn = "is_valid"
  /\ \E s \in Sources, i \in IdCandidates : arg = [src |-> s, id |-> i]
  /\ ret = NoRet
  /\ RunIdle

call_is_valid ==
  /\ fn = "is_valid" /\ ret = NoRet
  /\ ret' = Ok(is_valid(arg.src, arg.id))
  /\ UNCHANGED <<fn, arg>>
  /\ UNCHANGED runVars

NextValid == call_is_valid

SpecValid == InitValid /\ [][NextValid]_vars

InitKey ==
  /\ fn = "citation_key"
  /\ \E s \in Sources, a \in AuthorLists, t \in Titles :
       \E y \in KeyYears(s), p \in KeyPdates(s) :
         arg = [src |-> s,
                ref |-> [authors |-> a, title |-> t, year |-> y, pub_date |-> p]]
  /\ ret = NoRet
  /\ RunIdle

call_citation_key ==
  /\ fn = "citation_key" /\ ret = NoRet
  /\ ret' = citation_key(arg.src, arg.ref)
  /\ UNCHANGED <<fn, arg>>
  /\ UNCHANGED runVars

NextKey == call_citation_key

SpecKey == InitKey /\ [][NextKey]_vars

InitMd ==
  /\ fn = "generate_markdown_file"
  /\ \E s \in Sources, t \in Titles, sm \in Summaries, u \in NoteUrls :
       \E d \in Pubdates(s) :
         arg = [src |-> s, today |-> Today,
                metadata |-> [title |-> t, summary |-> sm,
                              author |-> JaneQSmith \o AndSep \o BobLee,
                              pubdate |-> d, url |-> u,
                              key |-> <<"s","m","i","t","h">>]]
  /\ ret = NoRet
  /\ RunIdle

call_generate_markdown_file ==
  /\ fn = "generate_markdown_file" /\ ret = NoRet
  /\ ret' = generate_markdown_file(arg.src, arg.metadata, arg.today)
  /\ UNCHANGED <<fn, arg>>
  /\ UNCHANGED runVars

NextMd == call_generate_markdown_file

SpecMd == InitMd /\ [][NextMd]_vars

----------------------------------------------------------------------------
(* The remote services.                                                     *)

V1 == <<"v","1">>
ArxivApiAbs ==
  <<"h","t","t","p",":","/","/","a","r","x","i","v",".","o","r","g","/","a","b","s","/">>
CsLG == <<"c","s",".","L","G">>

\* the shapes of entry the arXiv API answers with
ArxivKinds ==
  {"good", "no_title", "blank_title", "no_authors", "no_id", "blank_author",
   "no_published"}

\* The Atom entry the API returns for identifier id: the well-formed entry of the
\* paper (its id element is the abs URL of id at version 1), or that entry with
\* one element missing or blank.
ArxivEntry(kind, id) ==
  LET good ==
        [id               |-> Elem(ArxivApiAbs \o id \o V1),
         authors          |-> <<JaneQSmith, BobLee>>,
         title            |-> Elem(<<" ">> \o DeepTitle \o <<"\n">>),
         summary          |-> Elem(<<"F",":","\n"," ","F">>),
         published        |-> Elem(IsoDate),
         updated          |-> Elem(IsoDate),
         primary_category |-> Elem(CsLG),
         journal_ref      |-> NoElem,
         doi              |-> NoElem]
  IN  CASE kind = "good"         -> good
        [] kind = "no_title"     -> [good EXCEPT !.title = NoElem]
        [] kind = "blank_title"  -> [good EXCEPT !.title = Elem(<<" ", "\n">>)]
        [] kind = "no_authors"   -> [good EXCEPT !.authors = <<>>]
        [] kind = "no_id"        -> [good EXCEPT !.id = NoElem]
        [] kind = "blank_author" -> [good EXCEPT !.authors = <<BlankName, BobLee>>]
        [] kind = "no_published" -> [good EXCEPT !.published = NoElem]

\* the shapes of note the OpenReview API answers with
OpenReviewKinds ==
  {"good", "no_title_key", "empty_title", "blank_title", "no_authors",
   "blank_author", "no_pdate", "empty_id_no_abstract"}

Neurips == <<"N","e","u","r","I","P","S","/","2","0","2","3">>

OpenReviewNote(kind, id) ==
  LET good ==
        [id       |-> Val(id),
         title    |-> Val(FooBarTitle),
         authors  |-> Val(<<JaneQSmith, BobLee>>),
         abstract |-> Val(<<"F",":","\n"," ","F">>),
         pdf      |-> Val(<<"/","p","d","f","?","i","d","=">> \o id),
         forum    |-> Val(id),
         venueid  |-> Val(Neurips),
         pdate    |-> Pdate(Secs2023, 0)]
  IN  CASE kind = "good"         -> good
        [] kind = "no_title_key" -> [good EXCEPT !.title = NoVal]
        [] kind = "empty_title"  -> [good EXCEPT !.title = Val(<<>>)]
        [] kind = "blank_title"  -> [good EXCEPT !.title = Val(<<" ">>)]
        [] kind = "no_authors"   -> [good EXCEPT !.authors = Val(<<>>)]
        [] kind = "blank_author" -> [good EXCEPT !.authors = Val(<<BlankName>>)]
        [] kind = "no_pdate"     -> [good EXCEPT !.pdate = NoPdate]
        [] kind = "empty_id_no_abstract" ->
             [good EXCEPT !.id = Val(<<>>), !.abstract = NoVal]

\* the status codes a PDF download can end with
StatusCodes == {200, 404}
PdfBytes == <<"%PDF">>

----------------------------------------------------------------------------
(* run, fetch_bibtex, arxiv2bib_dict, openreview2bib_dict, download_pdf.    *)

Urls(src) ==
  IF src = "arxiv"
  THEN {ArxivAbs \o ArxivId1, ArxivPdf \o ArxivId2, ArxivAbs \o ArxivBadId}
  ELSE {OpenReviewForum \o OpenReviewId1, OpenReviewPdf \o OpenReviewId2,
        OpenReviewForum \o OpenReviewBadId}

\* d[key] = v on a dict
Put(d, key, v) == [x \in DOMAIN d \cup {key} |-> IF x = key THEN v ELSE d[x]]

ErrorRecord(msg) == [error |-> msg]
InvalidArxiv == "Invalid arXiv identifier"
InvalidOpenReview == "Invalid OpenReview identifier"
NoNotesFound == "No notes found"
KeyErrorPaperId == "KeyError: paper_id"

\* zip(a, b)
zip(a, b) ==
  [i \in 1..(IF Len(a) < Len(b) THEN Len(a) ELSE Len(b)) |-> <<a[i], b[i]>>]

\* try: Reference(entry).to_dict()  except Exception as error: {"error": str(error)}
arxiv_record(entry) ==
  LET ref == arxiv_Reference(entry)
      d   == arxiv_to_dict(ref.val)
  IN  IF ref.st = "raise" THEN ErrorRecord(ref.msg)
      ELSE IF d.st = "raise" THEN ErrorRecord(d.msg)
      ELSE d.val

openreview_record(note) ==
  LET ref == openreview_Reference(note)
      d   == openreview_to_dict(ref.val)
  IN  IF ref.st = "raise" THEN ErrorRecord(ref.msg)
      ELSE IF d.st = "raise" THEN ErrorRecord(d.msg)
      ELSE d.val

Init ==
  /\ fn = "run" /\ arg = <<>> /\ ret = NoRet
  /\ source \in Sources
  /\ entries \in UNION {[1..n -> Urls(source)] : n \in 0..MaxPapers}
  /\ pc = "run"
  /\ paper_ids = <<>> /\ ids = <<>> /\ results = EmptyMap /\ xml = <<>> /\ notes = <<>>
  /\ k = 0 /\ files = EmptyMap /\ exc = NoExc /\ stdout = <<>> /\ log = <<>>

\* where the control goes when the batch function returns to run
LoopStart == IF paper_ids = <<>> THEN "done" ELSE "note"

\* run: the identifiers are cut from the URLs and fetch_bibtex is entered
run_start ==
  /\ pc = "run"
  /\ paper_ids' = [i \in DOMAIN entries |->
                     SplitLast(entries[i], IF source = "arxiv" THEN <<"/">>
                                           ELSE <<"i","d","=">>)]
  /\ ids' = <<>> /\ results' = EmptyMap /\ k' = 1
  /\ pc' = IF source = "openreview" THEN (IF entries = <<>> THEN "done" ELSE "fetch")
           ELSE IF entries = <<>> THEN "done" ELSE "validate"
  /\ UNCHANGED <<source, entries, xml, notes, files, exc, stdout, log>>
  /\ UNCHANGED callVars

\* arxiv2bib_dict: one round of the validation loop; after the last round the
\* function returns when no identifier is valid
arxiv_validate ==
  /\ pc = "validate" /\ k <= Len(paper_ids)
  /\ LET id == paper_ids[k]
         ids1 == IF arxiv_is_valid(id) THEN Append(ids, id) ELSE ids
     IN  /\ ids' = ids1
         /\ results' = IF arxiv_is_valid(id) THEN results
                       ELSE Put(results, id, ErrorRecord(InvalidArxiv))
         /\ pc' = IF k < Len(paper_ids) THEN "validate"
                  ELSE IF Len(ids1) = 0 THEN LoopStart ELSE "request"
  /\ k' = IF k < Len(paper_ids) THEN k + 1 ELSE 1
  /\ log' = Append(log, <<"validate", k>>)
  /\ UNCHANGED <<source, entries, paper_ids, xml, notes, files, exc, stdout>>
  /\ UNCHANGED callVars

\* arxiv_request answers: one entry for each identifier sent, in the order sent
arxiv_request_returns ==
  /\ pc = "request"
  /\ \E kinds \in [DOMAIN ids -> ArxivKinds] :
       xml' = [i \in DOMAIN ids |-> ArxivEntry(kinds[i], ids[i])]
  /\ pc' = "parse" /\ k' = 1
  /\ log' = Append(log, <<"request", 0>>)
  /\ UNCHANGED <<source, entries, paper_ids, ids, results, notes, files, exc, stdout>>
  /\ UNCHANGED callVars

\* the exception of arxiv_request swallowed: arxiv2bib_dict returns what it has
arxiv_request_raises_caught ==
  /\ pc = "request"
  /\ pc' = "note" /\ k' = 1
  /\ log' = Append(log, <<"request_failed", 0>>)
  /\ UNCHANGED <<source, entries, paper_ids, ids, results, xml, notes, files, exc, stdout>>
  /\ UNCHANGED callVars

\* arxiv_request raises (urlopen fails): nothing catches it, run ends
arxiv_request_raises ==
  /\ pc = "request"
  /\ pc' = "aborted" /\ exc' = HTTPErrorMsg
  /\ log' = Append(log, <<"request_failed", 0>>)
  /\ UNCHANGED <<source, entries, paper_ids, ids, results, xml, notes, k, files, stdout>>
  /\ UNCHANGED callVars

\* arxiv2bib_dict: one round of  for id, entry in zip(id_list, entries)
arxiv_parse ==
  /\ pc = "parse" /\ k <= Len(zip(paper_ids, xml))
  /\ LET id    == zip(paper_ids, xml)[k][1]
         entry == zip(paper_ids, xml)[k][2]
     IN  results' = Put(results, id, arxiv_record(entry))
  /\ log' = Append(log, <<"normalize", k>>)
  /\ pc' = IF k < Len(zip(paper_ids, xml)) THEN "parse" ELSE LoopStart
  /\ k' = IF k < Len(zip(paper_ids, xml)) THEN k + 1 ELSE 1
  /\ UNCHANGED <<source, entries, paper_ids, ids, xml, notes, files, exc, stdout>>
  /\ UNCHANGED callVars

\* the end of one round of the loop of openreview2bib_dict
OpenReviewRoundEnd ==
  /\ pc' = IF k < Len(paper_ids) THEN "fetch" ELSE LoopStart
  /\ k' = IF k < Len(paper_ids) THEN k + 1 ELSE 1
  /\ UNCHANGED <<source, entries, paper_ids, ids, xml, files, exc, stdout>>
  /\ UNCHANGED callVars

\* openreview2bib_dict: a round for an identifier is_valid rejects
openreview_invalid ==
  /\ pc = "fetch" /\ k <= Len(paper_ids)
  /\ ~openreview_is_valid(paper_ids[k])
  /\ results' = Put(results, paper_ids[k], ErrorRecord(InvalidOpenReview))
  /\ log' = Append(log, <<"validate", k>>)
  /\ UNCHANGED notes
  /\ OpenReviewRoundEnd

\* a round in which openreview_request raises: the except clause records it
openreview_request_raises ==
  /\ pc = "fetch" /\ k <= Len(paper_ids)
  /\ openreview_is_valid(paper_ids[k])
  /\ results' = Put(results, paper_ids[k], ErrorRecord(HTTPErrorMsg))
  /\ log' = log \o <<(<<"validate", k>>), (<<"request_failed", k>>)>>
  /\ UNCHANGED notes
  /\ OpenReviewRoundEnd

\* a round in which the API answers with no note
openreview_no_notes ==
  /\ pc = "fetch" /\ k <= Len(paper_ids)
  /\ openreview_is_valid(paper_ids[k])
  /\ notes' = <<>>
  /\ results' = Put(results, paper_ids[k], ErrorRecord(NoNotesFound))
  /\ log' = log \o <<(<<"validate", k>>), (<<"request", k>>)>>
  /\ OpenReviewRoundEnd

\* a round in which the API answers with a note: Reference(notes[0]).to_dict()
openreview_parse ==
  /\ pc = "fetch" /\ k <= Len(paper_ids)
  /\ openreview_is_valid(paper_ids[k])
  /\ \E kind \in OpenReviewKinds :
       /\ notes' = <<OpenReviewNote(kind, paper_ids[k])>>
       /\ results' = Put(results, paper_ids[k], openreview_record(notes'[1]))
  /\ log' = log \o <<(<<"validate", k>>), (<<"request", k>>), (<<"normalize", k>>)>>
  /\ OpenReviewRoundEnd

MdSuffix == <<".md">>
PdfSuffix == <<".pdf">>

\* run: bibtex_db[paper_id] or metadata['key'] raises KeyError
run_note_keyerror ==
  /\ pc = "note" /\ k <= Len(paper_ids)
  /\ \/ /\ paper_ids[k] \notin DOMAIN results
        /\ exc' = KeyErrorPaperId
     \/ /\ paper_ids[k] \in DOMAIN results
        /\ "key" \notin DOMAIN results[paper_ids[k]]
        /\ exc' = KeyErrorMsg("key")
  /\ pc' = "aborted"
  /\ UNCHANGED <<source, entries, paper_ids, ids, results, xml, notes, k, files,
                 stdout, log>>
  /\ UNCHANGED callVars

\* run: the note file is opened and generate_markdown_file raises
run_note_render_fails ==
  /\ pc = "note" /\ k <= Len(paper_ids)
  /\ paper_ids[k] \in DOMAIN results
  /\ "key" \in DOMAIN results[paper_ids[k]]
  /\ LET metadata == results[paper_ids[k]]
         content  == generate_markdown_file(source, metadata, Today)
     IN  /\ content.st = "raise"
         /\ files' = Put(files, metadata.key \o MdSuffix, <<>>)
         /\ exc' = content.msg
  /\ pc' = "aborted"
  /\ log' = log \o <<(<<"open_note", k>>)>>
  /\ UNCHANGED <<source, entries, paper_ids, ids, results, xml, notes, k, stdout>>
  /\ UNCHANGED callVars

\* the loop of run going to the download with no note written
run_note_skipped ==
  /\ pc = "note" /\ k <= Len(paper_ids)
  /\ paper_ids[k] \in DOMAIN results
  /\ "key" \in DOMAIN results[paper_ids[k]]
  /\ pc' = "pdf"
  /\ UNCHANGED <<source, entries, paper_ids, ids, results, xml, notes, k, files, exc,
                 stdout, log>>
  /\ UNCHANGED callVars

\* run: the note file is opened, rendered and written
run_note_written ==
  /\ pc = "note" /\ k <= Len(paper_ids)
  /\ paper_ids[k] \in DOMAIN results
  /\ "key" \in DOMAIN results[paper_ids[k]]
  /\ LET metadata == results[paper_ids[k]]
         content  == generate_markdown_file(source, metadata, Today)
     IN  /\ content.st = "ok"
         /\ files' = Put(files, metadata.key \o MdSuffix, content.val)
  /\ pc' = "pdf"
  /\ log' = log \o <<(<<"open_note", k>>), (<<"render", k>>), (<<"write_note", k>>)>>
  /\ UNCHANGED <<source, entries, paper_ids, ids, results, xml, notes, k, exc, stdout>>
  /\ UNCHANGED callVars

\* the end of one round of the loop of run
RunRoundEnd ==
  /\ pc' = IF k < Len(paper_ids) THEN "note" ELSE "done"
  /\ k' = k + 1
  /\ UNCHANGED <<source, entries, paper_ids, ids, results, xml, notes, exc>>
  /\ UNCHANGED callVars

\* download_pdf: status 200, the PDF file is written
download_pdf_ok ==
  /\ pc = "pdf"
  /\ files' = Put(files, results[paper_ids[k]].key \o PdfSuffix, PdfBytes)
  /\ stdout' = Append(stdout, "Downloaded")
  /\ log' = log \o <<(<<"download", k>>), (<<"write_pdf", k>>)>>
  /\ RunRoundEnd

\* download_pdf: another status, a message is printed and no file is written
download_pdf_failed ==
  /\ pc = "pdf"
  /\ \E status_code \in StatusCodes \ {200} :
       stdout' = Append(stdout, "Failed to download PDF")
  /\ log' = log \o <<(<<"download", k>>), (<<"pdf_failed", k>>)>>
  /\ UNCHANGED files
  /\ RunRoundEnd

\* download_pdf: requests.get raises, nothing catches it
download_pdf_raises ==
  /\ pc = "pdf"
  /\ pc' = "aborted" /\ exc' = "ConnectionError"
  /\ log' = log \o <<(<<"download", k>>)>>
  /\ UNCHANGED <<source, entries, paper_ids, ids, results, xml, notes, k, files, stdout>>
  /\ UNCHANGED callVars

Next ==
  \/ run_start
  \/ arxiv_validate
  \/ arxiv_request_returns
  \/ arxiv_request_raises
  \/ arxiv_parse
  \/ openreview_invalid
  \/ openreview_request_raises
  \/ openreview_no_notes
  \/ openreview_parse
  \/ run_note_keyerror
  \/ run_note_render_fails
  \/ run_note_written
  \/ download_pdf_ok
  \/ download_pdf_failed
  \/ download_pdf_raises

Spec == Init /\ [][Next]_vars

----------------------------------------------------------------------------
(* Vocabulary of the properties.                                            *)

IsErrorRecord(rec) == DOMAIN rec = {"error"}
IsFullRecord(rec) == "key" \in DOMAIN rec

\* the step ev is in the history
Has(ev) == \E p \in DOMAIN log : log[p] = ev
\* the last step taken
LastStep == IF log = <<>> THEN <<"none", 0>> ELSE log[Len(log)]

BatchSteps == {"validate", "request", "request_failed", "normalize"}
LoopSteps == {"open_note", "render", "write_note", "download", "write_pdf", "pdf_failed"}

\* the batch function has returned its mapping to run
Returned ==
  pc \in {"note", "pdf", "done"} \/ (pc = "aborted" /\ LastStep[1] \in LoopSteps)
  \/ (pc = "aborted" /\ exc \in {KeyErrorMsg("key"), KeyErrorPaperId})

AllIn(s, S) == \A i \in DOMAIN s : s[i] \in S
HasColon(s) == \E i \in DOMAIN s : s[i] = ":"
Quote == "\""

\* the text of the front-matter line of content that starts with label
ReadField(content, label) ==
  LET at == find(content, <<"\n", label>>)
  IN  IF at = -1 THEN <<"<no such line>">>
      ELSE SplitFirst(SliceFrom(content, at + 2), <<"\n">>)

\* Whitespace normalisation, character by character: every run of whitespace
\* becomes one space, and the runs at the two ends are dropped.
RECURSIVE Squeeze(_)
Squeeze(s) ==
  IF s = <<>> THEN <<>>
  ELSE IF Head(s) \notin Whitespace THEN <<Head(s)>> \o Squeeze(Tail(s))
  ELSE IF Tail(s) # <<>> /\ Head(Tail(s)) \in Whitespace THEN Squeeze(Tail(s))
  ELSE <<" ">> \o Squeeze(Tail(s))
Normalized(s) ==
  LET q  == Squeeze(s)
      q1 == IF q # <<>> /\ Head(q) = " " THEN Tail(q) ELSE q
  IN  IF q1 # <<>> /\ q1[Len(q1)] = " " THEN SubSeq(q1, 1, Len(q1) - 1) ELSE q1

\* the rendering the front matter gives a title or an abstract
Rendered(s) ==
  IF HasColon(Normalized(s))
  THEN <<Quote>> \o SelectSeq(Normalized(s), LAMBDA c : c # Quote) \o <<Quote>>
  ELSE Normalized(s)

----------------------------------------------------------------------------
(* C3: is_valid and whole-string matching.                                  *)

IsVersionSuffix(v) == v = <<>> \/ (Len(v) >= 2 /\ v[1] = "v" /\ AllIn(Tail(v), Digit))

\* four digits, a period, four or more digits, an optional vN
NewStyleWhole(s) ==
  \E n \in 9..Len(s) :
    /\ AllIn(SubSeq(s, 1, 4), Digit) /\ s[5] = "."
    /\ AllIn(SubSeq(s, 6, n), Digit)
    /\ IsVersionSuffix(SliceFrom(s, n))

\* the subject-area prefixes OLD_STYLE lists
ListedPrefixes ==
  UNION {{OLD_STYLE_AREAS[i].area}
         \cup {OLD_STYLE_AREAS[i].area \o <<".">> \o OLD_STYLE_AREAS[i].subs[j] :
                 j \in DOMAIN OLD_STYLE_AREAS[i].subs} : i \in DOMAIN OLD_STYLE_AREAS}

\* a listed prefix, a slash, exactly 7 digits, an optional vN
OldStyleWhole(s) ==
  \E p \in 1..Len(s) :
    /\ s[p] = "/" /\ SubSeq(s, 1, p - 1) \in ListedPrefixes
    /\ Len(s) >= p + 7 /\ AllIn(SubSeq(s, p + 1, p + 7), Digit)
    /\ IsVersionSuffix(SliceFrom(s, p + 7))

WholeMatch(src, s) ==
  IF src = "arxiv" THEN NewStyleWhole(s) \/ OldStyleWhole(s)
  ELSE s # <<>> /\ AllIn(s, Word \cup {"-"})

\* C3: is_valid returns true exactly when the whole identifier string matches
\* the pattern of its source, and false for every other string, also for a
\* match followed or preceded by extra characters.
C3_IsValidIffWholeMatch ==
  (fn = "is_valid" /\ ret.st = "ok") => (ret.val <=> WholeMatch(arg.src, arg.id))

----------------------------------------------------------------------------
(* C4: the citation key.                                                    *)

LastWord(s) == IF split(s) = <<>> THEN <<>> ELSE split(s)[Len(split(s))]
FirstWord(s) == IF split(s) = <<>> THEN <<>> ELSE split(s)[1]
YearString(src, ref) ==
  IF src = "arxiv" THEN ref.year ELSE openreview_year(ref.pub_date)

\* C4: for every reference with a non-empty author list (of names that have a
\* word, so that the first author has a last word) citation_key returns
\* lowercase(last word of the first author) + year + lowercase(first word of the
\* title with its colons removed); a title without words gives an empty title
\* component, and no error is raised.
C4_CitationKeyComposition ==
  (/\ fn = "citation_key" /\ ret.st # "none" /\ arg.ref.authors # <<>>
   /\ \A i \in DOMAIN arg.ref.authors : split(arg.ref.authors[i]) # <<>>) =>
    ret = Ok(lower(LastWord(arg.ref.authors[1]))
             \o YearString(arg.src, arg.ref)
             \o lower(SelectSeq(FirstWord(arg.ref.title), LAMBDA c : c # ":")))

----------------------------------------------------------------------------
(* C6, C7: the note.                                                        *)

\* C6: in the rendered note the title and the abstract are whitespace-normalised
\* (runs of whitespace collapsed to one space, none at the ends); a normalised
\* value with a colon is wrapped in double quotes with its own double quotes
\* removed, a normalised value without a colon is rendered unchanged.
C6_ColonValuesAreQuoted ==
  (fn = "generate_markdown_file" /\ ret.st = "ok") =>
    /\ ReadField(ret.val, "title: ") = Rendered(arg.metadata.title)
    /\ ReadField(ret.val, "tldr: ") = Rendered(arg.metadata.summary)

\* a note rendered from the title  Foo: "Bar"  carries the title  "Foo: Bar"
C6_Witness ==
  /\ fn = "generate_markdown_file" /\ ret.st = "ok"
  /\ arg.metadata.title = FooBarTitle
  /\ ReadField(ret.val, "title: ")
       = <<Quote, "F", "o", "o", ":", " ", "B", "a", "r", Quote>>
  /\ ~HasColon(Normalized(arg.metadata.summary))
  /\ arg.metadata.summary # Normalized(arg.metadata.summary)

\* C7 as stated: reading back the title: and url: lines of the rendered note
\* yields the whitespace-normalised title and the exact url, for every record.
C7_RoundTripAsStated ==
  (fn = "generate_markdown_file" /\ ret.st = "ok") =>
    /\ ReadField(ret.val, "title: ") = Normalized(arg.metadata.title)
    /\ ReadField(ret.val, "url: ") = arg.metadata.url

\* C7 amended: for every record that renders, the title read back is the
\* whitespace-normalised title when that has no colon, and the normalised title
\* without its double quotes, inside a pair of double quotes, when it has one;
\* the url read back is the exact url when the url has no line break.
C7_RoundTrip ==
  (fn = "generate_markdown_file" /\ ret.st = "ok") =>
    LET t == Normalized(arg.metadata.title)
    IN  /\ ~HasColon(t) => ReadField(ret.val, "title: ") = t
        /\ HasColon(t) =>
             ReadField(ret.val, "title: ")
               = <<Quote>> \o SelectSeq(t, LAMBDA c : c # Quote) \o <<Quote>>
        /\ "\n" \notin Range(arg.metadata.url) =>
             ReadField(ret.val, "url: ") = arg.metadata.url

\* a title with whitespace to normalise and no colon came back normalised
C7_Witness ==
  /\ fn = "generate_markdown_file" /\ ret.st = "ok"
  /\ ~HasColon(arg.metadata.title)
  /\ Normalized(arg.metadata.title) \notin {<<>>, arg.metadata.title}
  /\ ReadField(ret.val, "title: ") = Normalized(arg.metadata.title)
  /\ ReadField(ret.val, "url: ") = arg.metadata.url

----------------------------------------------------------------------------
(* C1, C10: the mapping of the batch function.                              *)

\* an Atom entry with an id, an author list of names with words, and a title
WellFormedEntry(e) ==
  /\ e.id.present /\ e.title.present /\ strip(e.title.text) # <<>>
  /\ e.authors # <<>> /\ \A i \in DOMAIN e.authors : split(e.authors[i]) # <<>>

\* a note with every key, an id, authors with words, and a title with a word
WellFormedNote(n) ==
  /\ \A i \in DOMAIN OpenReviewKeys : n[OpenReviewKeys[i]].present
  /\ n.id.v # <<>> /\ split(n.title.v) # <<>>
  /\ n.authors.v # <<>> /\ \A i \in DOMAIN n.authors.v : split(n.authors.v[i]) # <<>>

\* C1: the mapping a batch function returns has exactly the requested
\* identifiers as keys; an identifier that fails the pattern check maps to a
\* one-field error record, a valid identifier whose API entry is well formed maps
\* to a full record.
C1_EveryIdentifierKeepsItsResult ==
  /\ Returned =>
       /\ DOMAIN results = Range(paper_ids)
       /\ \A id \in Range(paper_ids) :
            ~is_valid(source, id) => id \in DOMAIN results /\ IsErrorRecord(results[id])
       /\ source = "arxiv" =>
            \A id \in Range(ids) :
              (\A i \in DOMAIN ids : i \in DOMAIN xml /\ ids[i] = id => WellFormedEntry(xml[i]))
                => (xml # <<>> => id \in DOMAIN results /\ IsFullRecord(results[id]))
  /\ (source = "openreview" /\ LastStep[1] = "normalize" /\ WellFormedNote(notes[1])) =>
       IsFullRecord(results[paper_ids[LastStep[2]]])

\* C10: in arxiv2bib_dict every full record is stored under the identifier whose
\* own API entry it was built from (the entry of identifier id carries id at
\* version 1).
C10_RecordUnderItsOwnIdentifier ==
  source = "arxiv" =>
    \A id \in DOMAIN results :
      IsFullRecord(results[id]) => results[id].eprint = id \o V1

----------------------------------------------------------------------------
(* C2: errors of one paper and the rest of the batch.                       *)

\* paper i ended in one of the per-paper error kinds
PaperFailed(i) ==
  \/ paper_ids[i] \in DOMAIN results /\ IsErrorRecord(results[paper_ids[i]])
  \/ Has(<<"pdf_failed", i>>)

\* C2: when run has ended without a network exception, every paper with a full
\* record that comes after a paper with an error record or a failed PDF download
\* has had its note written and its PDF download attempted.
C2_PaperErrorsDoNotAbort ==
  (pc \in {"done", "aborted"} /\ exc \in {NoExc, KeyErrorMsg("key")}) =>
    \A i, j \in DOMAIN paper_ids :
      (/\ i < j /\ PaperFailed(i)
       /\ paper_ids[j] \in DOMAIN results /\ IsFullRecord(results[paper_ids[j]])) =>
        Has(<<"write_note", j>>) /\ Has(<<"download", j>>)

----------------------------------------------------------------------------
(* C5: required fields.                                                     *)

\* the entry the last normalisation step read
LastEntry == IF source = "arxiv" THEN xml[LastStep[2]] ELSE notes[1]

\* the id, the authors or the title of the entry is empty or absent
LacksRequired(e) ==
  IF source = "arxiv"
  THEN \/ ~e.id.present \/ strip(e.id.text) = <<>>
       \/ e.authors = <<>>
       \/ ~e.title.present \/ strip(e.title.text) = <<>>
  ELSE \/ ~e.id.present \/ e.id.v = <<>>
       \/ ~e.authors.present \/ e.authors.v = <<>>
       \/ ~e.title.present \/ e.title.v = <<>>

FullRecordsHaveRequired ==
  \A id \in DOMAIN results :
    IsFullRecord(results[id]) =>
      results[id].title # <<>> /\ results[id].author # <<>> /\ results[id].eprint # <<>>

\* C5 as stated: every full record has a title, authors and an id, and an entry
\* that lacks one of them is recorded as {"error": "No such publication"}.
C5_AsStated ==
  /\ FullRecordsHaveRequired
  /\ (LastStep[1] = "normalize" /\ LacksRequired(LastEntry)) =>
       results[paper_ids[LastStep[2]]] = ErrorRecord(NoSuchPublication)

\* the message for a note that lacks keys: the name of the first key, in the
\* order __init__ reads them, that is absent
MissingKeyMessages(n) ==
  {KeyErrorMsg(OpenReviewKeys[i]) : i \in
     {i \in DOMAIN OpenReviewKeys :
        /\ ~n[OpenReviewKeys[i]].present
        /\ \A j \in 1..(i - 1) : n[OpenReviewKeys[j]].present}}

\* C5 amended: every full record has a title, authors and an id; an entry that
\* lacks one of them leaves an error record in the mapping, never a full record:
\* {"error": "No such publication"} for an arXiv entry and for an OpenReview note
\* that has all its keys, and the name of the first absent key for an OpenReview
\* note that lacks a key.
C5_RequiredFields ==
  /\ FullRecordsHaveRequired
  /\ (LastStep[1] = "normalize" /\ LacksRequired(LastEntry)) =>
       LET rec == results[paper_ids[LastStep[2]]]
       IN  /\ IsErrorRecord(rec)
           /\ IF source = "openreview" /\ MissingKeyMessages(LastEntry) # {}
              THEN rec.error \in MissingKeyMessages(LastEntry)
              ELSE rec.error = NoSuchPublication

\* an entry with a blank title was recorded as "No such publication"
C5_Witness ==
  /\ LastStep[1] = "normalize" /\ LacksRequired(LastEntry)
  /\ results[paper_ids[LastStep[2]]] = ErrorRecord(NoSuchPublication)
  /\ \E id \in DOMAIN results : IsFullRecord(results[id])

----------------------------------------------------------------------------
(* C8: an exception of the metadata request.                                *)

RequestFailed == \E p \in DOMAIN log : log[p][1] = "request_failed"
NoLoopStep == \A p \in DOMAIN log : log[p][1] \notin LoopSteps

\* C8 as stated: once the metadata request has raised, run is aborted by that
\* exception, no mapping is returned and nothing is written.
C8_AsStated ==
  RequestFailed =>
    pc = "aborted" /\ exc = HTTPErrorMsg /\ files = EmptyMap /\ NoLoopStep

\* C8 amended: an exception of arxiv_request leaves arxiv2bib_dict and run: run
\* is aborted, no mapping is returned, nothing is written.  An exception of
\* openreview_request is caught in openreview2bib_dict: it becomes the error
\* record of that identifier, the loop goes on, and the mapping is returned with
\* an entry for every identifier.
C8_RequestException ==
  /\ (source = "arxiv" /\ RequestFailed) =>
       pc = "aborted" /\ exc = HTTPErrorMsg /\ files = EmptyMap /\ NoLoopStep
       /\ LastStep = <<"request_failed", 0>>
  /\ source = "openreview" =>
       /\ exc # HTTPErrorMsg
       /\ LastStep[1] = "request_failed" =>
            /\ results[paper_ids[LastStep[2]]] = ErrorRecord(HTTPErrorMsg)
            /\ (pc = "aborted" => exc = KeyErrorMsg("key"))
       /\ Returned => DOMAIN results = Range(paper_ids)

\* arxiv_request raised after two identifiers were validated
C8_Witness ==
  /\ source = "arxiv" /\ RequestFailed /\ pc = "aborted"
  /\ Len(paper_ids) >= 2 /\ results # EmptyMap

----------------------------------------------------------------------------
(* C9: the order of the steps.                                              *)

BatchRank(step) ==
  CASE step = "validate" -> 1
    [] step \in {"request", "request_failed"} -> 2
    [] step = "normalize" -> 3
LoopRank(step) ==
  CASE step = "open_note" -> 1
    [] step = "render" -> 2
    [] step = "write_note" -> 3
    [] step = "download" -> 4
    [] step \in {"write_pdf", "pdf_failed"} -> 5

\* C9 as stated: the identifiers are processed one at a time, validate to PDF:
\* no step for a later identifier happens before the PDF download of an earlier
\* one, and each note is written before its PDF download is attempted.
C9_AsStated ==
  /\ \A p, q \in DOMAIN log :
       (p < q /\ log[q][1] = "download") => log[p][2] <= log[q][2]
  /\ \A q \in DOMAIN log :
       log[q][1] = "download" =>
         \E p \in 1..(q - 1) : log[p] = <<"write_note", log[q][2]>>

\* C9 amended: run works in two phases.  The batch function first validates,
\* requests and normalises for all identifiers (arXiv: all validations, then
\* one request, then the normalisations; OpenReview: identifier by identifier).
\* Only then run takes the identifiers one at a time, in list order: open the
\* note file, render, write the note, download the PDF, write the PDF; no loop
\* step for a later identifier happens before the PDF step of an earlier one,
\* and each note is written before its PDF download is attempted.
C9_TwoPhases ==
  /\ \A p, q \in DOMAIN log :
       (p < q /\ log[p][1] \in LoopSteps) =>
         /\ log[q][1] \in LoopSteps
         /\ log[p][2] <= log[q][2]
         /\ log[p][2] = log[q][2] => LoopRank(log[p][1]) < LoopRank(log[q][1])
  /\ \A p, q \in DOMAIN log :
       (p < q /\ log[p][1] \in BatchSteps /\ log[q][1] \in BatchSteps) =>
         IF source = "arxiv"
         THEN /\ BatchRank(log[p][1]) <= BatchRank(log[q][1])
              /\ BatchRank(log[p][1]) = BatchRank(log[q][1]) => log[p][2] < log[q][2]
         ELSE /\ log[p][2] <= log[q][2]
              /\ log[p][2] = log[q][2] => BatchRank(log[p][1]) < BatchRank(log[q][1])
  /\ \A q \in DOMAIN log :
       log[q][1] = "download" =>
         /\ \E p \in 1..(q - 1) : log[p] = <<"write_note", log[q][2]>>
         /\ results[paper_ids[log[q][2]]].key \o MdSuffix \in DOMAIN files

\* two papers went through both phases
C9_Witness ==
  /\ pc = "done" /\ Len(paper_ids) >= 2
  /\ Has(<<"write_pdf", 1>>) /\ Has(<<"pdf_failed", 2>>)

====
